---- MODULE Spec2Model ----
(***************************************************************************)
(* Model of the taxi heatmap component (src/unnamed/part_001):             *)
(*   - useHeatmapData, the data fetch coordinator (lines 39-83);           *)
(*   - InfoMarkers, the interactive marker layer (lines 292-438);          *)
(*   - the intensity normalisation and colour scale used by InfoMarkers    *)
(*     (getColorForPoint) and by HeatmapOverlay (draw, getColorForIntensity*)
(*     lines 138-222).                                                     *)
(* Numbers are integers; a normalised intensity is kept as the exact       *)
(* fraction num/den the code computes in floating point.                   *)
(***************************************************************************)
EXTENDS Integers, Sequences, FiniteSets, TLC

VARIABLES
  mounted,        \* TaxiHeatmap is mounted
  apiUrl,         \* process.env.NEXT_PUBLIC_API_URL is set
  propertyName,   \* prop propertyName ("none" models null)
  resolution,     \* prop resolution
  data,           \* useState data
  loading,        \* useState loading
  error,          \* useState error (NoError models null)
  effectPending,  \* the effect of useHeatmapData is due for the current deps
  inflight,       \* numbers of the fetchData invocations suspended at an await
  nextId,         \* number of the next fetchData invocation
  latestOutcome,  \* what the invocation for the current deps set on completion
  lateCalls,      \* a state setter was invoked after unmount
  selectedPoint,  \* useState selectedPoint of InfoMarkers (NoPoint models null)
  lastClick,      \* what the last marker-layer event did to the selection
  markers,        \* the markers InfoMarkers rendered
  drawn,          \* the cells HeatmapOverlay.draw coloured
  map,            \* prop map of CustomHeatmapOverlay is non-null
  mapState,       \* what the map can answer: projection, bounds
  viewport,       \* the map's bounds, in div pixels
  attached,       \* the canvas of the current HeatmapOverlay is in the overlay pane
  canvas,         \* position, size and content of the current canvas
  threw           \* the last call of draw ended with an exception

vars == <<mounted, apiUrl, propertyName, resolution, data, loading, error,
          effectPending, inflight, nextId, latestOutcome, lateCalls,
          selectedPoint, lastClick, markers, drawn,
          map, mapState, viewport, attached, canvas, threw>>

overlayVars == <<map, mapState, viewport, attached, canvas, threw>>

fetchVars == <<mounted, apiUrl, propertyName, resolution, data, loading, error,
               effectPending, inflight, nextId, latestOutcome, lateCalls>>

(***************************************************************************)
(* Bounds                                                                  *)
(***************************************************************************)
MaxRequests == 2   \* fetchData invocations per run
MaxRespCells == 2  \* cells of a response of the aggregation service
MaxCells == 2      \* cells of a snapshot given to the renderers
MaxWeight == 3     \* largest weight of a cell
MaxAvg == 1        \* largest avg_value of a cell
MaxPix == 2        \* largest div pixel coordinate of the map

(***************************************************************************)
(* Data model                                                              *)
(***************************************************************************)
NamedMetrics == {"altitude", "speed", "azimuth"}
Metrics == NamedMetrics \cup {"none"}

\* A cell: has_avg is FALSE when avg_value is absent from the response.
Cell(id, w, has, avg) ==
  [h3_id |-> id, weight |-> w, has_avg |-> has, avg_value |-> avg]

NoPoint == Cell(0, 0, FALSE, 0)

CellValues ==
  {<<w, FALSE, 0>> : w \in 1..MaxWeight}
    \cup {<<w, TRUE, a>> : w \in 1..MaxWeight, a \in 0..MaxAvg}

\* Snapshots of up to n cells; the cell at position i has h3_id i.
SnapshotsOf(n, values) ==
  UNION {{[i \in 1..k |-> Cell(i, f[i][1], f[i][2], f[i][3])] :
            f \in [1..k -> values]} : k \in 0..n}

\* Cells of a count-only response (no col_name): avg_value absent.
CountValues == {<<w, FALSE, 0>> : w \in 1..MaxWeight}

\* The snapshots the renderers are run on: any cells up to MaxCells, and
\* count-only cells up to one more, which gives intensities strictly between
\* 0 and 1.
Snapshots ==
  SnapshotsOf(MaxCells, CellValues) \cup SnapshotsOf(MaxCells + 1, CountValues)

Min(a, b) == IF a < b THEN a ELSE b
Max(a, b) == IF a > b THEN a ELSE b

SeqMax(s) == CHOOSE x \in {s[i] : i \in DOMAIN s} : \A j \in DOMAIN s : s[j] <= x
SeqMin(s) == CHOOSE x \in {s[i] : i \in DOMAIN s} : \A j \in DOMAIN s : s[j] >= x

\* Math.round of the non-negative fraction n/d (d > 0): floor(n/d + 1/2).
Round(n, d) == (2 * n + d) \div (2 * d)

(***************************************************************************)
(* Intensity normaliser and colour scale                                   *)
(***************************************************************************)
\* JavaScript `p.avg_value || p.weight`: avg_value when it is truthy.
AvgOrWeight_nullish(p) == IF p.has_avg THEN p.avg_value ELSE p.weight

AvgOrWeight(p) ==
  IF p.has_avg /\ p.avg_value # 0 THEN p.avg_value ELSE p.weight

getIntensityValue(prop, p) ==
  IF prop \in NamedMetrics THEN AvgOrWeight(p) ELSE p.weight

intensityValues(d, prop) == [i \in DOMAIN d |-> getIntensityValue(prop, d[i])]

maxIntensity(d, prop) == SeqMax(intensityValues(d, prop))

minIntensity(d, prop) == SeqMin(intensityValues(d, prop))

\* `maxIntensity - minIntensity || 1`
range_noGuard(d, prop) == maxIntensity(d, prop) - minIntensity(d, prop)

range(d, prop) ==
  IF maxIntensity(d, prop) - minIntensity(d, prop) # 0
    THEN maxIntensity(d, prop) - minIntensity(d, prop)
    ELSE 1

getGradientColors(prop) ==
  CASE prop = "speed" ->
         << <<0, 0, 128>>, <<0, 0, 255>>, <<0, 255, 0>>,
            <<255, 255, 0>>, <<255, 128, 0>>, <<255, 0, 0>> >>
    [] prop = "altitude" ->
         << <<0, 102, 204>>, <<0, 204, 102>>, <<204, 204, 0>>,
            <<204, 102, 0>>, <<204, 0, 0>> >>
    [] prop = "azimuth" ->
         << <<128, 0, 128>>, <<0, 0, 255>>, <<0, 255, 0>>,
            <<255, 255, 0>>, <<255, 128, 0>>, <<255, 0, 0>> >>
    [] OTHER ->
         << <<0, 0, 255>>, <<0, 255, 255>>, <<0, 255, 0>>,
            <<255, 255, 0>>, <<255, 128, 0>>, <<255, 0, 0>> >>

\* Index of the second interpolation stop, 0-based as in the code.
endIndex_unclamped(colorIndex, colorCount) == colorIndex + 1

endIndex(colorIndex, colorCount) == Min(colorIndex + 1, colorCount - 1)

startIndex(colorIndex, colorCount) == Min(colorIndex, colorCount - 1)

\* The interpolation shared by getColorForIntensity and getColorForPoint, for
\* the intensity num/den: scaledIntensity = num * (colorCount - 1) / den.
\* A stop index outside the palette reads undefined in the code and throws;
\* the colour is then <<>>.  A zero den makes the intensity NaN, which as an
\* index reads undefined as well (colorIndex -1 stands for it).
Interpolate(prop, num, den) ==
  LET colors == getGradientColors(prop)
      colorCount == Len(colors)
      scaledNum == num * (colorCount - 1)
      colorIndex == IF den = 0 THEN -1 ELSE scaledNum \div den
      fracNum == scaledNum - colorIndex * den
      si == startIndex(colorIndex, colorCount)
      ei == endIndex(colorIndex, colorCount)
      ok == si \in 0..(colorCount - 1) /\ ei \in 0..(colorCount - 1)
      ch(c) == Round(colors[si + 1][c] * den
                       + (colors[ei + 1][c] - colors[si + 1][c]) * fracNum, den)
  IN [startIndex |-> si, endIndex |-> ei, colorCount |-> colorCount,
      color |-> IF ok THEN <<ch(1), ch(2), ch(3)>> ELSE <<>>]

\* InfoMarkers.getColorForPoint: the intensity is not clamped.
getColorForPoint(d, prop, point) ==
  LET num == getIntensityValue(prop, point) - minIntensity(d, prop)
      den == range(d, prop)
  IN [h3_id |-> point.h3_id, raw |-> getIntensityValue(prop, point),
      num |-> num, den |-> den] @@ Interpolate(prop, num, den)

\* HeatmapOverlay.getColorForIntensity: clamps the intensity to [0, 1] first.
getColorForIntensity(prop, num, den) ==
  Interpolate(prop, Max(0, Min(den, num)), den)

\* The colouring part of HeatmapOverlay.draw for the cell at position i.
drawCell(d, prop, i) ==
  LET num == intensityValues(d, prop)[i] - minIntensity(d, prop)
      den == range(d, prop)
  IN [h3_id |-> d[i].h3_id, raw |-> intensityValues(d, prop)[i],
      num |-> num, den |-> den]
       @@ getColorForIntensity(prop, num, den)

\* The markers of InfoMarkers' render, one per cell.
renderMarkers(d, prop) == [i \in DOMAIN d |-> getColorForPoint(d, prop, d[i])]

(***************************************************************************)
(* Data fetch coordinator: useHeatmapData                                  *)
(***************************************************************************)
Resolutions == {8, 9}

NoError == "null"

\* err.message of the errors fetchData catches: a non-2xx response, a
\* transport error thrown by fetch, a body response.json() cannot parse.
FetchErrors ==
  {"HTTP error! status: 500", "Failed to fetch", "Unexpected token in JSON"}

ConfigError == "API URL not configured"

\* Bodies the aggregation service may answer with.
RespValues == {<<1, TRUE, 0>>, <<2, TRUE, 1>>}

Responses == SnapshotsOf(MaxRespCells, RespValues)

\* The state a fetchData invocation sets when it completes: the body and the
\* error cleared at its start (success), or no cells and the message (failure).
Outcome(d, err) == [done |-> TRUE, data |-> d, error |-> err]

NoOutcome == [done |-> FALSE, data |-> <<>>, error |-> NoError]

\* The effect of useHeatmapData runs fetchData up to its first await.  With no
\* API URL the throw, the catch and the finally all run in the same step.
RunEffect ==
  /\ mounted
  /\ effectPending
  /\ effectPending' = FALSE
  /\ nextId' = nextId + 1
  /\ IF apiUrl
       THEN /\ loading' = TRUE
            /\ error' = NoError
            /\ inflight' = inflight \cup {nextId}
            /\ latestOutcome' = NoOutcome
            /\ UNCHANGED data
       ELSE /\ error' = ConfigError
            /\ data' = <<>>
            /\ loading' = FALSE
            /\ latestOutcome' = Outcome(<<>>, ConfigError)
            /\ UNCHANGED inflight
  /\ markers' = renderMarkers(data', propertyName)
  /\ UNCHANGED <<mounted, apiUrl, propertyName, resolution, lateCalls,
                 selectedPoint, lastClick, drawn,
                 overlayVars>>

\* The parent re-renders TaxiHeatmap with another metric (handlePropertyChange).
PropertyChange(p) ==
  /\ mounted
  /\ ~effectPending
  /\ nextId <= MaxRequests
  /\ p # propertyName
  /\ propertyName' = p
  /\ effectPending' = TRUE
  /\ markers' = renderMarkers(data, p)
  /\ UNCHANGED <<mounted, apiUrl, resolution, data, loading, error, inflight,
                 nextId, latestOutcome, lateCalls, selectedPoint, lastClick, drawn,
                 overlayVars>>

\* The parent re-renders TaxiHeatmap with another resolution.
ResolutionChange(r) ==
  /\ mounted
  /\ ~effectPending
  /\ nextId <= MaxRequests
  /\ r # resolution
  /\ resolution' = r
  /\ effectPending' = TRUE
  /\ UNCHANGED <<mounted, apiUrl, propertyName, data, loading, error, inflight,
                 nextId, latestOutcome, lateCalls, selectedPoint, lastClick,
                 markers, drawn, overlayVars>>

\* fetchData resumes with an ok response whose body parses: setData(result),
\* then the finally block.  React drops updates of an unmounted component.
FetchOk(q, result) ==
  /\ q \in inflight
  /\ inflight' = inflight \ {q}
  /\ IF mounted
       THEN /\ data' = result
            /\ loading' = FALSE
            /\ latestOutcome' = IF q = nextId - 1 THEN Outcome(result, NoError)
                                ELSE latestOutcome
            /\ markers' = renderMarkers(result, propertyName)
            /\ UNCHANGED lateCalls
       ELSE /\ lateCalls' = TRUE
            /\ UNCHANGED <<data, loading, latestOutcome, markers>>
  /\ UNCHANGED <<mounted, apiUrl, propertyName, resolution, error,
                 effectPending, nextId, selectedPoint, lastClick, drawn,
                 overlayVars>>

\* fetchData resumes in the catch block, then the finally block.
FetchFail_keepData(q, msg) ==
  /\ q \in inflight
  /\ inflight' = inflight \ {q}
  /\ IF mounted
       THEN /\ error' = msg
            /\ loading' = FALSE
            /\ latestOutcome' = IF q = nextId - 1 THEN Outcome(<<>>, msg)
                                ELSE latestOutcome
            /\ UNCHANGED <<data, markers, lateCalls>>
       ELSE /\ lateCalls' = TRUE
            /\ UNCHANGED <<error, data, loading, latestOutcome, markers>>
  /\ UNCHANGED <<mounted, apiUrl, propertyName, resolution,
                 effectPending, nextId, selectedPoint, lastClick, drawn,
                 overlayVars>>

FetchFail(q, msg) ==
  /\ q \in inflight
  /\ inflight' = inflight \ {q}
  /\ IF mounted
       THEN /\ error' = msg
            /\ data' = <<>>
            /\ loading' = FALSE
            /\ latestOutcome' = IF q = nextId - 1 THEN Outcome(<<>>, msg)
                                ELSE latestOutcome
            /\ markers' = <<>>
            /\ UNCHANGED lateCalls
       ELSE /\ lateCalls' = TRUE
            /\ UNCHANGED <<error, data, loading, latestOutcome, markers>>
  /\ UNCHANGED <<mounted, apiUrl, propertyName, resolution,
                 effectPending, nextId, selectedPoint, lastClick, drawn,
                 overlayVars>>

\* TaxiHeatmap unmounts; the effect returns no cleanup, so nothing is aborted.
Unmount ==
  /\ mounted
  /\ ~effectPending
  /\ mounted' = FALSE
  /\ markers' = <<>>
  /\ selectedPoint' = NoPoint
  /\ lastClick' = "none"
  /\ UNCHANGED <<apiUrl, propertyName, resolution, data, loading, error,
                 effectPending, inflight, nextId, latestOutcome, lateCalls, drawn,
                 overlayVars>>

(***************************************************************************)
(* Interactive marker layer: InfoMarkers                                   *)
(***************************************************************************)
\* onClick of marker i, ignored while a popup is open.
MarkerClick_keepFirst(i) ==
  /\ mounted
  /\ i \in DOMAIN data
  /\ selectedPoint' = IF selectedPoint = NoPoint THEN data[i] ELSE selectedPoint
  /\ lastClick' = IF selectedPoint = NoPoint THEN "open"
                  ELSE IF selectedPoint = data[i] THEN "same" ELSE "switch"
  /\ UNCHANGED <<fetchVars, markers, drawn, overlayVars>>

\* onClick of marker i, as a toggle.
MarkerClick_toggle(i) ==
  /\ mounted
  /\ i \in DOMAIN data
  /\ selectedPoint' = IF selectedPoint = data[i] THEN NoPoint ELSE data[i]
  /\ lastClick' = IF selectedPoint = NoPoint THEN "open"
                  ELSE IF selectedPoint = data[i] THEN "same" ELSE "switch"
  /\ UNCHANGED <<fetchVars, markers, drawn, overlayVars>>

\* onClick of marker i: setSelectedPoint(point).
MarkerClick(i) ==
  /\ mounted
  /\ i \in DOMAIN data
  /\ selectedPoint' = data[i]
  /\ lastClick' = IF selectedPoint = NoPoint THEN "open"
                  ELSE IF selectedPoint = data[i] THEN "same" ELSE "switch"
  /\ UNCHANGED <<fetchVars, markers, drawn, overlayVars>>

\* onClick of the popup's dismiss button: setSelectedPoint(null).
Dismiss ==
  /\ mounted
  /\ selectedPoint # NoPoint
  /\ selectedPoint' = NoPoint
  /\ lastClick' = "dismiss"
  /\ UNCHANGED <<fetchVars, markers, drawn, overlayVars>>

\* The popups InfoMarkers renders: `selectedPoint && <OverlayView ...>`.
Popups == IF selectedPoint # NoPoint THEN {selectedPoint} ELSE {}

(***************************************************************************)
(* Overlay renderer: CustomHeatmapOverlay and HeatmapOverlay               *)
(***************************************************************************)
Pix == 0..MaxPix

\* Bounds of the map in div pixels: x grows to the east, y to the south.
Viewports ==
  {[west |-> w, east |-> e, north |-> n, south |-> so] :
     w \in Pix, e \in Pix, n \in Pix, so \in Pix} \ 
  {v \in [west : Pix, east : Pix, north : Pix, south : Pix] :
     v.west >= v.east \/ v.north >= v.south}

\* The snapshots given to the overlay: up to MaxRespCells cells with an average.
OverlaySnapshots == SnapshotsOf(MaxRespCells, {<<2, TRUE, 1>>})

MapStates == {"noProjection", "noBounds", "ready"}

\* bounds.getNorthEast() and bounds.getSouthWest(), projected to div pixels.
NorthEast(v) == [x |-> v.east, y |-> v.north]

SouthWest(v) == [x |-> v.west, y |-> v.south]

\* projection.fromLatLngToDivPixel of a cell's centre.  The centre of an H3
\* cell is fixed by its h3_id: cell i lies at the div pixel (i, i).
fromLatLngToDivPixel(p) == [x |-> p.h3_id, y |-> p.h3_id]

Abs(n) == IF n < 0 THEN -n ELSE n

\* A canvas as the HeatmapOverlay constructor leaves it.
BlankCanvas ==
  [sized |-> FALSE, left |-> 0, top |-> 0, width |-> 0, height |-> 0,
   cells |-> <<>>]

\* The canvas after a draw that found the projection and the bounds: placed,
\* sized, cleared, and each cell within the canvas bounds filled with its colour.
drawCanvas(d, prop, v) ==
  LET topLeft == NorthEast(v)
      bottomRight == SouthWest(v)
      width == Abs(bottomRight.x - topLeft.x)
      height == Abs(bottomRight.y - topLeft.y)
      x(i) == fromLatLngToDivPixel(d[i]).x - topLeft.x
      y(i) == fromLatLngToDivPixel(d[i]).y - topLeft.y
      within == {i \in DOMAIN d :
                   ~(x(i) < 0 \/ x(i) > width \/ y(i) < 0 \/ y(i) > height)}
  IN [sized |-> TRUE, left |-> topLeft.x, top |-> topLeft.y,
      width |-> width, height |-> height,
      cells |-> [i \in within |-> drawCell(d, prop, i).color]]

\* HeatmapOverlay.draw: returns at once without a projection; without bounds
\* `map.getBounds()!` is undefined and bounds.getNorthEast() throws.  v is what
\* map.getBounds() answers during the call.
draw(v) ==
  CASE mapState = "noProjection" -> canvas' = canvas /\ threw' = FALSE
    [] mapState = "noBounds" -> canvas' = canvas /\ threw' = TRUE
    [] OTHER -> /\ canvas' = drawCanvas(data, propertyName, v)
                /\ threw' = FALSE

\* The guard of the effect of CustomHeatmapOverlay: an overlay is created
\* only with a map and a non-empty snapshot.
overlayWanted_anyData(m, d) == m

overlayWanted(m, d) == m /\ d # <<>>

\* The effect of CustomHeatmapOverlay for the deps (m, d, prop): the cleanup of
\* the previous run detaches its canvas (setMap(null), onRemove); then, if
\* wanted, a new HeatmapOverlay is constructed and setMap(map) attaches its
\* blank canvas (onAdd).
overlayEffect(m, d) ==
  /\ attached' = overlayWanted(m, d)
  /\ canvas' = BlankCanvas
  /\ UNCHANGED threw

overlayRest ==
  <<apiUrl, resolution, loading, error, effectPending, inflight, nextId,
    latestOutcome, lateCalls, selectedPoint, lastClick, markers, drawn>>

\* onLoad / onUnmount of GoogleMap: the map prop changes.
SetMapProp(m) ==
  /\ mounted
  /\ m # map
  /\ map' = m
  /\ overlayEffect(m, data)
  /\ UNCHANGED <<mounted, data, propertyName, mapState, viewport, overlayRest>>

\* The data prop changes: every setData passes a new array.
NewSnapshot(d) ==
  /\ mounted
  /\ data' = d
  /\ overlayEffect(map, d)
  /\ UNCHANGED <<mounted, map, propertyName, mapState, viewport, overlayRest>>

\* The propertyName prop changes.
NewMetric(p) ==
  /\ mounted
  /\ p # propertyName
  /\ propertyName' = p
  /\ overlayEffect(map, data)
  /\ UNCHANGED <<mounted, map, data, mapState, viewport, overlayRest>>

\* The map is panned, zoomed or resized; it calls draw of an attached overlay.
ViewportChange(v) ==
  /\ v # viewport
  /\ viewport' = v
  /\ IF attached THEN draw(v) ELSE UNCHANGED <<canvas, threw>>
  /\ UNCHANGED <<mounted, map, data, propertyName, mapState, attached,
                 overlayRest>>

\* The map gains or loses its projection or its bounds.
MapStateChange(st) ==
  /\ st # mapState
  /\ mapState' = st
  /\ UNCHANGED <<mounted, map, data, propertyName, viewport, attached,
                 canvas, threw, overlayRest>>

\* The map calls draw of the attached overlay (after onAdd, on idle).
OverlayDraw ==
  /\ attached
  /\ draw(viewport)
  /\ UNCHANGED <<mounted, map, data, propertyName, mapState, viewport,
                 attached, overlayRest>>

\* CustomHeatmapOverlay unmounts: the cleanup of the last effect run.
Teardown ==
  /\ mounted
  /\ mounted' = FALSE
  /\ attached' = FALSE
  /\ canvas' = BlankCanvas
  /\ UNCHANGED <<map, data, propertyName, mapState, viewport, threw,
                 overlayRest>>

\* No overlay: TaxiHeatmap renders none, and CustomHeatmapOverlay starts so.
OverlayOff ==
  /\ map = FALSE
  /\ mapState = "noProjection"
  /\ viewport = [west |-> 0, east |-> 1, north |-> 0, south |-> 1]
  /\ attached = FALSE
  /\ canvas = BlankCanvas
  /\ threw = FALSE

(***************************************************************************)
(* Specification of the mounted component                                  *)
(***************************************************************************)
Init ==
  /\ mounted = TRUE
  /\ apiUrl \in BOOLEAN
  /\ propertyName \in Metrics
  /\ resolution \in Resolutions
  /\ data = <<>>
  /\ loading = TRUE
  /\ error = NoError
  /\ effectPending = TRUE
  /\ inflight = {}
  /\ nextId = 1
  /\ latestOutcome = NoOutcome
  /\ lateCalls = FALSE
  /\ selectedPoint = NoPoint
  /\ lastClick = "none"
  /\ markers = <<>>
  /\ drawn = <<>>
  /\ OverlayOff

Next ==
  \/ RunEffect
  \/ \E p \in Metrics : PropertyChange(p)
  \/ \E r \in Resolutions : ResolutionChange(r)
  \/ \E q \in inflight, result \in Responses : FetchOk(q, result)
  \/ \E q \in inflight, msg \in FetchErrors : FetchFail(q, msg)
  \/ Unmount
  \/ \E i \in 1..MaxRespCells : MarkerClick(i)
  \/ Dismiss

Spec == Init /\ [][Next]_vars

(***************************************************************************)
(* Specification of the renderers as functions of (snapshot, metric)       *)
(***************************************************************************)
RenderInit ==
  /\ mounted = TRUE
  /\ apiUrl = TRUE
  /\ propertyName \in Metrics
  /\ resolution \in Resolutions
  /\ data \in Snapshots
  /\ loading = FALSE
  /\ error = NoError
  /\ effectPending = FALSE
  /\ inflight = {}
  /\ nextId = 2
  /\ latestOutcome = Outcome(data, NoError)
  /\ lateCalls = FALSE
  /\ selectedPoint = NoPoint
  /\ lastClick = "none"
  /\ markers = <<>>
  /\ drawn = <<>>
  /\ OverlayOff

\* InfoMarkers renders one marker per cell of data.
RenderMarkers ==
  /\ markers' = renderMarkers(data, propertyName)
  /\ UNCHANGED <<fetchVars, selectedPoint, lastClick, drawn,
                 overlayVars>>

\* HeatmapOverlay.draw colours every cell of data; the overlay is created
\* only for a non-empty snapshot.
Draw ==
  /\ data # <<>>
  /\ drawn' = [i \in DOMAIN data |-> drawCell(data, propertyName, i)]
  /\ UNCHANGED <<fetchVars, selectedPoint, lastClick, markers, overlayVars>>

RenderNext == RenderMarkers \/ Draw

RenderSpec == RenderInit /\ [][RenderNext]_vars

(***************************************************************************)
(* Specification of CustomHeatmapOverlay under changing props and map      *)
(***************************************************************************)
OverlayInit ==
  /\ mounted = TRUE
  /\ apiUrl = TRUE
  /\ propertyName \in Metrics
  /\ resolution = 8
  /\ data = <<>>
  /\ loading = TRUE
  /\ error = NoError
  /\ effectPending = FALSE
  /\ inflight = {}
  /\ nextId = 1
  /\ latestOutcome = NoOutcome
  /\ lateCalls = FALSE
  /\ selectedPoint = NoPoint
  /\ lastClick = "none"
  /\ markers = <<>>
  /\ drawn = <<>>
  /\ map = FALSE
  /\ mapState \in MapStates
  /\ viewport \in Viewports
  /\ attached = FALSE
  /\ canvas = BlankCanvas
  /\ threw = FALSE

OverlayNext ==
  \/ \E m \in BOOLEAN : SetMapProp(m)
  \/ \E d \in OverlaySnapshots : NewSnapshot(d)
  \/ \E p \in Metrics : NewMetric(p)
  \/ \E v \in Viewports : ViewportChange(v)
  \/ \E st \in MapStates : MapStateChange(st)
  \/ OverlayDraw
  \/ Teardown

OverlaySpec == OverlayInit /\ [][OverlayNext]_vars

(***************************************************************************)
(* Properties of the data fetch coordinator (checked under Spec)           *)
(***************************************************************************)
\* The fetchData invocation for the current (metric, resolution) pair.
latest == nextId - 1

\* C1: once two or more requests have been issued and all have completed,
\* the committed snapshot, error and loading state are those the request for
\* the latest pair set, whatever a superseded request did on completing.
C1_LatestRequestWins ==
  (mounted /\ ~effectPending /\ inflight = {} /\ latest >= 2)
    => /\ latestOutcome.done
       /\ data = latestOutcome.data
       /\ error = latestOutcome.error
       /\ loading = FALSE

\* C2: whenever an error message is present, the snapshot handed to the
\* marker layer is empty.
C2_ErrorImpliesEmptySnapshot ==
  (mounted /\ error # NoError) => (data = <<>> /\ markers = <<>>)

\* A step in which a fetch of the mounted component ends in failure: a
\* non-2xx response, a transport error or an unparseable body (FetchFail), or
\* a missing API URL (RunEffect without apiUrl).
FailedFetchStep ==
  \/ mounted /\ \E q \in inflight, msg \in FetchErrors : FetchFail(q, msg)
  \/ RunEffect /\ ~apiUrl

\* C3: a fetch that ends in failure leaves the coordinator Failed: error
\* non-null, snapshot empty whatever it was before, loading false.
C3_FailedFetchClears ==
  [][FailedFetchStep =>
       (error' # NoError /\ data' = <<>> /\ markers' = <<>> /\ loading' = FALSE)]_vars

\* A failed fetch emptied the snapshot from which a cell had been selected.
C3_Witness ==
  /\ mounted
  /\ error \in FetchErrors
  /\ data = <<>>
  /\ loading = FALSE
  /\ selectedPoint # NoPoint

\* C4: the snapshot is discarded when a new fetch begins.
C4_DiscardOnFetchStart == [][RunEffect => data' = <<>>]_vars

\* C5: after unmount, the completion of a fetch still in flight invokes no
\* state setter.
C5_NoSetterAfterUnmount == lateCalls = FALSE

(***************************************************************************)
(* Properties of the marker layer (checked under Spec)                     *)
(***************************************************************************)
\* C6: at most one popup is open after every step; a click on marker i leaves
\* exactly the popup of cell i open, whatever was selected before, and the
\* dismiss control leaves none open.
C6_AtMostOnePopup ==
  [][/\ Cardinality(Popups') <= 1
     /\ \A i \in 1..MaxRespCells : MarkerClick(i) => Popups' = {data[i]}
     /\ Dismiss => Popups' = {}]_vars

\* Marker B was clicked while A's popup was open; only B's popup is open.
C6_Witness ==
  /\ lastClick = "switch"
  /\ \E i \in DOMAIN data : Popups = {data[i]}

\* A click on the marker of the cell that is already selected.
ReclickStep(i) == MarkerClick(i) /\ selectedPoint = data[i]

Entries == {markers[i] : i \in DOMAIN markers} \cup {drawn[i] : i \in DOMAIN drawn}

FirstStop == getGradientColors(propertyName)[1]

LastStop == getGradientColors(propertyName)[Len(getGradientColors(propertyName))]

\* C8: for every metric, in the markers and in the overlay, a cell of
\* intensity 0 gets the palette's first stop, a cell of intensity 1 its last
\* stop, and the stop indices used are within 0..stopCount-1.
C8_EndpointColors ==
  \A e \in Entries :
    /\ e.num = 0 => e.color = FirstStop
    /\ e.num = e.den => e.color = LastStop
    /\ e.startIndex \in 0..(e.colorCount - 1)
    /\ e.endIndex \in 0..(e.colorCount - 1)

\* Both renderers coloured a snapshot with intensities 0, 1 and in between.
C8_Witness ==
  /\ Len(markers) = Len(data)
  /\ Len(drawn) = Len(data)
  /\ \E i, j, k \in DOMAIN data :
       /\ markers[i].num = 0 /\ drawn[i].color = FirstStop
       /\ markers[j].num = markers[j].den /\ drawn[j].color = LastStop
       /\ markers[k].num > 0 /\ markers[k].num < markers[k].den

AllRawEqual(out) == \A i, j \in DOMAIN out : out[i].raw = out[j].raw

\* C9: in both renderers every normalised intensity num/den has den >= 1
\* and lies in [0, 1]; when all raw values of the snapshot are equal, den is
\* 1 and every intensity is 0.
C9_NormalizedInUnitRange ==
  \A out \in {markers, drawn} :
    \A i \in DOMAIN out :
      /\ out[i].den >= 1
      /\ out[i].num >= 0
      /\ out[i].num <= out[i].den
      /\ AllRawEqual(out) => (out[i].den = 1 /\ out[i].num = 0)

\* Both renderers normalised a snapshot of two cells with equal raw values.
C9_Witness ==
  /\ Len(markers) = 2
  /\ Len(drawn) = 2
  /\ AllRawEqual(markers)
  /\ AllRawEqual(drawn)
  /\ markers[2].num = 0
  /\ drawn[2].den = 1

\* C10: the raw intensity of a cell is its avg_value whenever a metric is
\* selected and the cell has an avg_value (0 included), and its weight
\* otherwise.
C10_RawIsAvgValue ==
  \A out \in {markers, drawn} :
    \A i \in DOMAIN out :
      out[i].raw = IF propertyName \in NamedMetrics /\ data[i].has_avg
                     THEN data[i].avg_value
                     ELSE data[i].weight

(***************************************************************************)
(* Further properties of the coordinator and the marker layer (Spec)       *)
(***************************************************************************)
\* C14: loading is true in every state in which the request for the current
\* pair has been issued and has not completed, also after a superseded
\* request completed; once every issued request has completed it is false.
C14_LoadingWhileLatestInFlight ==
  /\ (mounted /\ latest \in inflight) => loading = TRUE
  /\ (mounted /\ ~effectPending /\ inflight = {} /\ latest >= 1)
       => loading = FALSE

\* C15: the selected point, if any, is a cell of the current snapshot.
C15_SelectedInSnapshot ==
  (mounted /\ selectedPoint # NoPoint)
    => \E i \in DOMAIN data : data[i].h3_id = selectedPoint.h3_id

RedrawStep ==
  /\ attached /\ attached'
  /\ mounted' /\ map' = map /\ mapState' = mapState
  /\ data' = data /\ propertyName' = propertyName

\* The cells whose projected pixel lies inside the viewport v.
InsideViewport(d, v) ==
  {i \in DOMAIN d :
     /\ fromLatLngToDivPixel(d[i]).x >= v.west
     /\ fromLatLngToDivPixel(d[i]).x <= v.east
     /\ fromLatLngToDivPixel(d[i]).y >= v.north
     /\ fromLatLngToDivPixel(d[i]).y <= v.south}

\* C12: a redraw on a ready map places the surface at the viewport's top-left
\* pixel, sizes it to the viewport, and draws exactly the cells whose pixel
\* lies inside the viewport.
C12_SurfaceCoversViewport ==
  [][(RedrawStep /\ mapState = "ready")
       => /\ canvas'.left = viewport'.west
          /\ canvas'.top = viewport'.north
          /\ canvas'.width = viewport'.east - viewport'.west
          /\ canvas'.height = viewport'.south - viewport'.north
          /\ DOMAIN canvas'.cells = InsideViewport(data', viewport')]_vars

\* C13: a redraw while the map has no projection or no bounds raises no
\* exception and leaves the surface as it was.
C13_NotReadySkipsQuietly ==
  [][(RedrawStep /\ mapState # "ready")
       => (threw' = FALSE /\ canvas' = canvas)]_vars

====
